---- MODULE Spec2Model ----
(***************************************************************************)
(* Model of src/app.py, the Oando PLC dashboard script.  One run of the    *)
(* script is a sequence of steps (pc); the Streamlit runtime reruns the    *)
(* script from the top on every user interaction.  load_data is wrapped in *)
(* st.cache_data, so its body runs once per process and later runs get the *)
(* cached value.                                                           *)
(***************************************************************************)
EXTENDS Integers, Sequences, FiniteSets, TLC

VARIABLES file, cache, loadCount, errors, df, pc, raised,
          filtered_df, selected_status, date_range, selected_region,
          kpi, trend_df

vars == <<file, cache, loadCount, errors, df, pc, raised,
          filtered_df, selected_status, date_range, selected_region,
          kpi, trend_df>>

\* ------------------------------------------------------------------------
\* Values
\* ------------------------------------------------------------------------

\* A missing cell (NaN / None) of a categorical column.
NaN == "<NaN>"

\* Timestamps are <<year, month, day, hour>>; NaT (missing timestamp) is <<>>.
NaT == <<>>

\* Python date objects handed to and returned by st.date_input: <<y, m, d>>.
\* Timestamp.date() drops the time of day; pd.to_datetime(date) is midnight.
DateOf(ts) == <<ts[1], ts[2], ts[3]>>

ToDatetime(d) == <<d[1], d[2], d[3], 0>>

\* Lexicographic order of two timestamps (both present).
TsLess(a, b) ==
    \/ a[1] < b[1]
    \/ a[1] = b[1] /\ a[2] < b[2]
    \/ a[1] = b[1] /\ a[2] = b[2] /\ a[3] < b[3]
    \/ a[1] = b[1] /\ a[2] = b[2] /\ a[3] = b[3] /\ a[4] < b[4]

\* Series >= / <= against a Timestamp: a comparison with NaT is False.
TsGe(a, b) == a # NaT /\ b # NaT /\ ~TsLess(a, b)

TsLe(a, b) == a # NaT /\ b # NaT /\ ~TsLess(b, a)

\* Raw spreadsheet cells of the Date column, as pd.read_excel returns them:
\* a datetime, a piece of text, or a blank cell.
DateCell(ts) == [t |-> "datetime", v |-> ts]

TextCell == [t |-> "text", v |-> NaT]

BlankCell == [t |-> "blank", v |-> NaT]

\* pd.to_datetime(cell, errors="coerce"): what cannot be parsed becomes NaT.
ToDatetimeCoerce(cell) == IF cell.t = "datetime" THEN cell.v ELSE NaT

\* ------------------------------------------------------------------------
\* The spreadsheets the model reads
\* ------------------------------------------------------------------------

\* Longest sheet (rows) the model reads.
MaxRows == 3

KnownCols == {"Status", "Date", "Region", "Customer_Segment"}

\* The rows sheets are made of: the three orders of the specification's
\* scenario, then orders with blank cells, an unparsable date and a time of day.
MasterRows ==
    << [Status |-> "Completed", Region |-> "West", Customer_Segment |-> "Retail",
        Date |-> DateCell(<<2024, 1, 15, 0>>)],
       [Status |-> "Pending", Region |-> "East", Customer_Segment |-> NaN,
        Date |-> DateCell(<<2024, 1, 20, 0>>)],
       [Status |-> "Cancelled", Region |-> "West", Customer_Segment |-> "Retail",
        Date |-> DateCell(<<2024, 2, 1, 0>>)],
       [Status |-> NaN, Region |-> NaN, Customer_Segment |-> NaN,
        Date |-> BlankCell],
       [Status |-> "Completed", Region |-> NaN, Customer_Segment |-> "Retail",
        Date |-> TextCell],
       [Status |-> "Pending", Region |-> "East", Customer_Segment |-> "Retail",
        Date |-> DateCell(<<2024, 2, 1, 12>>)] >>

\* The dates the date picker can return.
PickerDates == {<<2024, 1, 15>>, <<2024, 1, 20>>, <<2024, 2, 1>>}

\* Strictly increasing index sequences of length <= n over 1..m.
RECURSIVE IncSeqs(_, _)
IncSeqs(m, n) ==
    IF n = 0 \/ m = 0 THEN {<<>>}
    ELSE IncSeqs(m - 1, n) \cup {Append(s, m) : s \in IncSeqs(m - 1, n - 1)}

\* Header cell of column c as written in the sheet; padded sheets carry
\* surrounding whitespace in every header cell.
RawName(c, padded) == IF padded THEN <<" ", c, " ">> ELSE <<c>>

\* str.strip() of a header cell.
Strip(h) == IF Len(h) = 3 THEN h[2] ELSE h[1]

\* A sheet: header cells and rows (row i maps header cell -> raw cell).
Sheet(cols, padded, pick) ==
    [state |-> "ok",
     header |-> {RawName(c, padded) : c \in cols},
     rows |-> [i \in 1..Len(pick) |->
                 [h \in {RawName(c, padded) : c \in cols} |->
                     MasterRows[pick[i]][Strip(h)]]]]

NoSheet(st) == [state |-> st, header |-> {}, rows |-> <<>>]

\* A sheet without columns has no rows.
Files ==
    {NoSheet("missing"), NoSheet("corrupt"), Sheet({}, FALSE, <<>>)}
    \cup {Sheet(cols, padded, pick) :
            cols \in (SUBSET KnownCols) \ {{}},
            padded \in BOOLEAN,
            pick \in IncSeqs(Len(MasterRows), MaxRows)}

\* ------------------------------------------------------------------------
\* DataFrames
\* ------------------------------------------------------------------------

\* A DataFrame: its columns and its rows in order; every row keeps its index
\* label (idx), which boolean-mask selection preserves.
EmptyFrame == [cols |-> {}, rows |-> <<>>]

\* Mutant: only a frame without columns counts as empty.
IsEmptyNoColumns(d) == d.cols = {}

\* DataFrame.empty: no rows or no columns.
IsEmpty(d) == d.cols = {} \/ Len(d.rows) = 0

\* Value of a script variable that the current run has not assigned yet.
Unset == [cols |-> {"<unset>"}, rows |-> <<>>]

\* Rows of d that satisfy Keep, in order (boolean-mask selection d[mask]).
Select(d, Keep(_)) == [cols |-> d.cols, rows |-> SelectSeq(d.rows, Keep)]

\* Number of rows of s that satisfy Test (Series.eq(...).sum(), groupby.size()).
CountSeq(s, Test(_)) == Len(SelectSeq(s, Test))

\* ------------------------------------------------------------------------
\* load_data
\* ------------------------------------------------------------------------

\* pd.read_excel: the header row becomes the columns, rows get a RangeIndex.
ReadExcel(f) ==
    [cols |-> f.header,
     rows |-> [i \in 1..Len(f.rows) |-> [idx |-> i - 1, v |-> f.rows[i]]]]

\* data.columns = data.columns.str.strip()
StripColumns(data) ==
    [cols |-> {Strip(h) : h \in data.cols},
     rows |-> [i \in 1..Len(data.rows) |->
                 [idx |-> data.rows[i].idx,
                  v |-> [c \in {Strip(h) : h \in data.cols} |->
                           data.rows[i].v[CHOOSE h \in data.cols : Strip(h) = c]]]]]

\* Replace every cell of column col by F(cell).
MapColumn(data, col, F(_)) ==
    [cols |-> data.cols,
     rows |-> [i \in 1..Len(data.rows) |->
                 [idx |-> data.rows[i].idx,
                  v |-> [c \in data.cols |->
                           IF c = col THEN F(data.rows[i].v[c])
                           ELSE data.rows[i].v[c]]]]]

\* if "Date" in data.columns: data["Date"] = pd.to_datetime(..., errors="coerce")
ConvertDate(data) ==
    IF "Date" \in data.cols THEN MapColumn(data, "Date", ToDatetimeCoerce) ELSE data

FillCell(x) == IF x = NaN THEN "Unknown" ELSE x

\* if col in data.columns: data[col] = data[col].fillna("Unknown")
FillNa(data, col) ==
    IF col \in data.cols THEN MapColumn(data, col, FillCell) ELSE data

\* Mutant: the loop leaves Customer_Segment out.
FillStatusRegionOnly(data) == FillNa(FillNa(data, "Status"), "Region")

\* for col in ["Status", "Region", "Customer_Segment"]: fillna
FillCategoricals(data) ==
    FillNa(FillNa(FillNa(data, "Status"), "Region"), "Customer_Segment")

\* Mutant: no os.path.exists test, so a missing file fails inside read_excel.
LoadBodyNoExistsTest(f) ==
    IF f.state \in {"missing", "corrupt"}
    THEN [value |-> EmptyFrame, msgs |-> {"Failed to read Excel file"}]
    ELSE [value |-> FillCategoricals(ConvertDate(StripColumns(ReadExcel(f)))),
          msgs |-> {}]

\* The body of load_data: the frame it returns and the st.error messages it
\* shows.  No exception leaves it: read_excel is inside try/except Exception.
LoadBody(f) ==
    IF f.state = "missing"
    THEN [value |-> EmptyFrame, msgs |-> {"Excel file not found"}]
    ELSE IF f.state = "corrupt"
    THEN [value |-> EmptyFrame, msgs |-> {"Failed to read Excel file"}]
    ELSE [value |-> FillCategoricals(ConvertDate(StripColumns(ReadExcel(f)))),
          msgs |-> {}]

NoCache == [set |-> FALSE, value |-> EmptyFrame, msgs |-> {}]

\* Mutant: load_data without the cache decorator.
CacheMiss(c) == FALSE

\* @st.cache_data: a call with a cached entry does not run the body.
CacheHit(c) == c.set

\* df = load_data()
LoadData ==
    /\ pc = "load"
    /\ IF CacheHit(cache)
       THEN /\ df' = cache.value
            /\ errors' = cache.msgs
            /\ UNCHANGED <<cache, loadCount>>
       ELSE /\ df' = LoadBody(file).value
            /\ errors' = LoadBody(file).msgs
            /\ cache' = [set |-> TRUE, value |-> LoadBody(file).value,
                         msgs |-> LoadBody(file).msgs]
            /\ loadCount' = loadCount + 1
    /\ pc' = "check"
    /\ UNCHANGED <<file, raised, filtered_df, selected_status, date_range,
                   selected_region, kpi, trend_df>>

\* if df.empty: st.stop()
StopIfEmpty ==
    /\ pc = "check"
    /\ pc' = IF IsEmpty(df) THEN "stopped" ELSE "status"
    /\ UNCHANGED <<file, cache, loadCount, errors, df, raised, filtered_df,
                   selected_status, date_range, selected_region, kpi, trend_df>>

\* ------------------------------------------------------------------------
\* Sidebar filters
\* ------------------------------------------------------------------------

NoSelection == {"<no widget>"}

NoDateRange == [kind |-> "unset", v |-> <<>>]

\* The values of column col, missing ones dropped: df[col].dropna().unique().
\* (sorted() only fixes the order the widget lists them in.)
Options(d, col) == {d.rows[i].v[col] : i \in 1..Len(d.rows)} \ {NaN}

\* fd[fd[col].isin(sel)]
IsIn(fd, col, sel) == Select(fd, LAMBDA r : r.v[col] \in sel)

\* The Status block up to the status mask: filtered_df = df.copy(), then, if
\* the frame has a Status column, the multiselect and the isin selection.
StatusFilter ==
    /\ pc = "status"
    /\ IF "Status" \in df.cols
       THEN /\ \E sel \in SUBSET Options(df, "Status") :
                 /\ selected_status' = sel
                 /\ filtered_df' = IsIn(df, "Status", sel)
            /\ pc' = "date_input"
       ELSE /\ filtered_df' = df
            /\ selected_status' = selected_status
            /\ pc' = "region"
    /\ UNCHANGED <<file, cache, loadCount, errors, df, raised, date_range,
                   selected_region, kpi, trend_df>>

\* The present timestamps of the Date column.
PresentDates(d) == {d.rows[i].v["Date"] : i \in 1..Len(d.rows)} \ {NaT}

\* df["Date"].min() / .max(): NaT when no timestamp is present.
MinTs(d) ==
    IF PresentDates(d) = {} THEN NaT
    ELSE CHOOSE m \in PresentDates(d) : \A x \in PresentDates(d) : ~TsLess(x, m)

MaxTs(d) ==
    IF PresentDates(d) = {} THEN NaT
    ELSE CHOOSE m \in PresentDates(d) : \A x \in PresentDates(d) : ~TsLess(m, x)

\* value=(min_date, max_date) if min_date and max_date else None
DefaultRange(d) ==
    IF MinTs(d) # NaT /\ MaxTs(d) # NaT
    THEN [kind |-> "tuple", v |-> <<DateOf(MinTs(d)), DateOf(MaxTs(d))>>]
    ELSE [kind |-> "none", v |-> <<>>]

\* What st.date_input can return.  Given a pair it is a range picker and
\* returns a tuple of zero, one or two dates; given None it is a single-date
\* picker and returns None or one date.  The script does not rely on the
\* order of a returned pair, so both orders are returned here.
DateInput(value) ==
    IF value.kind = "tuple"
    THEN {[kind |-> "tuple", v |-> <<>>]}
         \cup {[kind |-> "tuple", v |-> <<a>>] : a \in PickerDates}
         \cup {[kind |-> "tuple", v |-> <<a, b>>] : a \in PickerDates, b \in PickerDates}
    ELSE {[kind |-> "none", v |-> <<>>]}
         \cup {[kind |-> "date", v |-> <<a>>] : a \in PickerDates}

\* Lines 113-125, which sit inside the `if "Status" in df.columns:` block:
\* df["Date"] raises KeyError when the frame has no Date column.
DateWidget ==
    /\ pc = "date_input"
    /\ IF "Date" \in df.cols
       THEN /\ date_range' \in DateInput(DefaultRange(df))
            /\ pc' = "date1"
            /\ raised' = raised
       ELSE /\ raised' = "KeyError"
            /\ pc' = "crashed"
            /\ date_range' = date_range
    /\ UNCHANGED <<file, cache, loadCount, errors, df, filtered_df,
                   selected_status, selected_region, kpi, trend_df>>

\* isinstance(date_range, (list, tuple)) and len(date_range) == 2
IsPair(dr) == dr.kind = "tuple" /\ Len(dr.v) = 2

\* Mutant: any non-empty tuple is applied, its first and last date as bounds.
DateFilterAnyTuple(fd, dr) ==
    IF dr.kind = "tuple" /\ Len(dr.v) >= 1
    THEN Select(fd, LAMBDA r : /\ TsGe(r.v["Date"], ToDatetime(dr.v[1]))
                               /\ TsLe(r.v["Date"], ToDatetime(dr.v[Len(dr.v)])))
    ELSE fd

\* Mutant: the selection is followed by an off-by-one slice (.iloc[1:]).
DateFilterSlice(fd, dr) ==
    IF IsPair(dr)
    THEN LET sel == Select(fd, LAMBDA r : /\ TsGe(r.v["Date"], ToDatetime(dr.v[1]))
                                         /\ TsLe(r.v["Date"], ToDatetime(dr.v[2])))
         IN [cols |-> sel.cols,
             rows |-> IF sel.rows = <<>> THEN <<>> ELSE Tail(sel.rows)]
    ELSE fd

\* One `if isinstance(...) and len(...) == 2:` block: both bounds inclusive.
DateFilter(fd, dr) ==
    IF IsPair(dr)
    THEN Select(fd, LAMBDA r : /\ TsGe(r.v["Date"], ToDatetime(dr.v[1]))
                               /\ TsLe(r.v["Date"], ToDatetime(dr.v[2])))
    ELSE fd

\* The three consecutive date blocks (lines 127-134, 136-143, 145-151).
ApplyDate(here, next) ==
    /\ pc = here
    /\ filtered_df' = DateFilter(filtered_df, date_range)
    /\ pc' = next
    /\ UNCHANGED <<file, cache, loadCount, errors, df, raised, selected_status,
                   date_range, selected_region, kpi, trend_df>>

DateFilter1 == ApplyDate("date1", "date2")

DateFilter2 == ApplyDate("date2", "date3")

DateFilter3 == ApplyDate("date3", "region")

\* The Region block.
RegionFilter ==
    /\ pc = "region"
    /\ IF "Region" \in df.cols
       THEN \E sel \in SUBSET Options(df, "Region") :
                 /\ selected_region' = sel
                 /\ filtered_df' = IsIn(filtered_df, "Region", sel)
       ELSE UNCHANGED <<selected_region, filtered_df>>
    /\ pc' = "kpi"
    /\ UNCHANGED <<file, cache, loadCount, errors, df, raised, selected_status,
                   date_range, kpi, trend_df>>

\* ------------------------------------------------------------------------
\* KPIs and the monthly trend
\* ------------------------------------------------------------------------

\* filtered_df["Status"].eq(s).sum() if "Status" in filtered_df.columns else 0
StatusCount(fd, s) ==
    IF "Status" \in fd.cols THEN CountSeq(fd.rows, LAMBDA r : r.v["Status"] = s)
    ELSE 0

\* Mutant: the division without the total_orders > 0 guard.
FulfillmentRateNoGuard(fulfilled, total) ==
    [num |-> fulfilled * 100, den |-> total]

\* (fulfilled_orders / total_orders) * 100 if total_orders > 0 else 0.0,
\* kept as the exact fraction num/den.
FulfillmentRate(fulfilled, total) ==
    IF total > 0 THEN [num |-> fulfilled * 100, den |-> total]
    ELSE [num |-> 0, den |-> 1]

KPIs(fd) ==
    [total_orders |-> Len(fd.rows),
     fulfilled_orders |-> StatusCount(fd, "Completed"),
     pending_orders |-> StatusCount(fd, "Pending"),
     cancelled_orders |-> StatusCount(fd, "Cancelled"),
     fulfillment_rate |->
         FulfillmentRate(StatusCount(fd, "Completed"), Len(fd.rows))]

NoKPIs ==
    [total_orders |-> -1, fulfilled_orders |-> -1, pending_orders |-> -1,
     cancelled_orders |-> -1, fulfillment_rate |-> [num |-> 0, den |-> 0]]

ComputeKPIs ==
    /\ pc = "kpi"
    /\ kpi' = KPIs(filtered_df)
    /\ pc' = "charts"
    /\ UNCHANGED <<file, cache, loadCount, errors, df, raised, filtered_df,
                   selected_status, date_range, selected_region, trend_df>>

\* Timestamp -> monthly period <<year, month>>; NaT stays NaT.
ToPeriodM(ts) == IF ts = NaT THEN NaT ELSE <<ts[1], ts[2]>>

PeriodLess(p, q) == p[1] < q[1] \/ (p[1] = q[1] /\ p[2] < q[2])

\* Mutant: the group keys in descending order.
RECURSIVE SortKeysDesc(_)
SortKeysDesc(S) ==
    IF S = {} THEN <<>>
    ELSE LET m == CHOOSE p \in S : \A q \in S : ~PeriodLess(p, q)
         IN <<m>> \o SortKeysDesc(S \ {m})

\* The group keys in ascending order (groupby sorts its keys).
RECURSIVE SortKeys(_)
SortKeys(S) ==
    IF S = {} THEN <<>>
    ELSE LET m == CHOOSE p \in S : \A q \in S : ~PeriodLess(q, p)
         IN <<m>> \o SortKeys(S \ {m})

\* filtered_df.dropna(subset=["Date"])
\*   .groupby(filtered_df["Date"].dt.to_period("M")).size()
\*   .reset_index(name="Orders")
\* The key Series is aligned with the frame on the index label; groupby drops
\* missing keys.
MonthlyTrend(fd) ==
    LET frame == Select(fd, LAMBDA r : r.v["Date"] # NaT)
        KeyOf(idx) ==
            LET i == CHOOSE j \in 1..Len(fd.rows) : fd.rows[j].idx = idx
            IN ToPeriodM(fd.rows[i].v["Date"])
        keys == {KeyOf(frame.rows[i].idx) : i \in 1..Len(frame.rows)} \ {NaT}
        sorted == SortKeys(keys)
    IN [i \in 1..Len(sorted) |->
          [Date |-> sorted[i],
           Orders |-> CountSeq(frame.rows, LAMBDA r : KeyOf(r.idx) = sorted[i])]]

NoTrend == <<[Date |-> NaT, Orders |-> -1]>>

\* The charts: only the monthly trend is a computed table of the model.
ComputeCharts ==
    /\ pc = "charts"
    /\ trend_df' = IF "Date" \in filtered_df.cols THEN MonthlyTrend(filtered_df)
                   ELSE trend_df
    /\ pc' = "done"
    /\ UNCHANGED <<file, cache, loadCount, errors, df, raised, filtered_df,
                   selected_status, date_range, selected_region, kpi>>

\* ------------------------------------------------------------------------
\* The Streamlit runtime and the file system
\* ------------------------------------------------------------------------

Ended == pc \in {"done", "stopped", "crashed"}

\* A user interaction (or a page reload) reruns the script from the top; the
\* cache of load_data lives on in the process.
Rerun ==
    /\ Ended
    /\ pc' = "load"
    /\ df' = Unset
    /\ errors' = {}
    /\ raised' = "none"
    /\ filtered_df' = Unset
    /\ selected_status' = NoSelection
    /\ date_range' = NoDateRange
    /\ selected_region' = NoSelection
    /\ kpi' = NoKPIs
    /\ trend_df' = NoTrend
    /\ UNCHANGED <<file, cache, loadCount>>

\* Between two runs the spreadsheet is deleted, corrupted or replaced.
ChangedFiles ==
    {NoSheet("missing"), NoSheet("corrupt"), Sheet(KnownCols, FALSE, <<1, 2, 3>>)}

ChangeFile ==
    /\ Ended
    /\ file' \in ChangedFiles \ {file}
    /\ UNCHANGED <<cache, loadCount, errors, df, pc, raised, filtered_df,
                   selected_status, date_range, selected_region, kpi, trend_df>>

Init ==
    /\ file \in Files
    /\ cache = NoCache
    /\ loadCount = 0
    /\ errors = {}
    /\ df = Unset
    /\ pc = "load"
    /\ raised = "none"
    /\ filtered_df = Unset
    /\ selected_status = NoSelection
    /\ date_range = NoDateRange
    /\ selected_region = NoSelection
    /\ kpi = NoKPIs
    /\ trend_df = NoTrend

Next ==
    \/ LoadData
    \/ StopIfEmpty
    \/ StatusFilter
    \/ DateWidget
    \/ DateFilter1
    \/ DateFilter2
    \/ DateFilter3
    \/ RegionFilter
    \/ ComputeKPIs
    \/ ComputeCharts
    \/ Rerun
    \/ ChangeFile

Spec == Init /\ [][Next]_vars

\* ------------------------------------------------------------------------
\* Properties
\* ------------------------------------------------------------------------

\* The run is past the sidebar filters.
PostFilter == pc \in {"kpi", "charts", "done"}

\* Every row of fd has its col value in sel.
AllIn(fd, col, sel) == \A i \in 1..Len(fd.rows) : fd.rows[i].v[col] \in sel

\* C1: whatever columns among Status, Date and Region a non-empty Dataset
\* has, the filter step does not raise, and the predicates of the columns
\* that are present are applied.
C1_FilterNeverRaises ==
    /\ raised = "none"
    /\ pc # "crashed"
    /\ PostFilter =>
         /\ "Status" \in df.cols => AllIn(filtered_df, "Status", selected_status)
         /\ "Region" \in df.cols => AllIn(filtered_df, "Region", selected_region)

\* The interval of the selection: the one the date picker returned, or, when
\* no picker was shown, the default [min(Date), max(Date)] of the Dataset.
SelectedInterval == IF date_range.kind = "unset" THEN DefaultRange(df) ELSE date_range

DateLeq(a, b) == ~TsLess(ToDatetime(b), ToDatetime(a))

WellFormed(dr) == dr.kind = "tuple" /\ Len(dr.v) = 2 /\ DateLeq(dr.v[1], dr.v[2])

\* C2: with a Date column and a well-formed interval [start, end], every row
\* of the FilteredDataset has a present Date d with start <= d <= end, so no
\* row with an absent Date is left; Status and Region may be absent.
C2_DateIntervalHonoured ==
    (PostFilter /\ "Date" \in df.cols /\ WellFormed(SelectedInterval)) =>
        \A i \in 1..Len(filtered_df.rows) :
            LET ts == filtered_df.rows[i].v["Date"]
            IN /\ ts # NaT
               /\ DateLeq(SelectedInterval.v[1], DateOf(ts))
               /\ DateLeq(DateOf(ts), SelectedInterval.v[2])

\* The rows of the Dataset that pass the status and region predicates.
StatusRegionOnly ==
    LET a == IF "Status" \in df.cols THEN IsIn(df, "Status", selected_status) ELSE df
    IN IF "Region" \in df.cols THEN IsIn(a, "Region", selected_region) ELSE a

\* C3 as stated: a selected interval that has not exactly two bounds, or whose
\* end is earlier than its start, leaves every row that passes the status and
\* region predicates.
C3_MalformedSkipped ==
    (PostFilter /\ date_range.kind # "unset" /\ ~WellFormed(date_range)) =>
        filtered_df = StatusRegionOnly

\* C3 amended: a selected interval that has not exactly two bounds leaves
\* every row that passes the status and region predicates.
C3_NotAPairSkipped ==
    (PostFilter /\ date_range.kind # "unset" /\ ~(Len(date_range.v) = 2)) =>
        filtered_df = StatusRegionOnly

C3_Witness ==
    /\ pc = "done"
    /\ date_range.kind = "tuple"
    /\ Len(date_range.v) = 1
    /\ \E i \in 1..Len(filtered_df.rows) :
          ~TsGe(filtered_df.rows[i].v["Date"], ToDatetime(date_range.v[1]))

\* C4: load on a missing file and on a file that cannot be parsed returns an
\* empty Dataset, reports the matching error and raises nothing.
C4_LoadFailureReported ==
    [][(pc = "load" /\ ~cache.set /\ file.state # "ok") =>
          /\ df' = EmptyFrame
          /\ file.state = "missing" => errors' = {"Excel file not found"}
          /\ file.state = "corrupt" => errors' = {"Failed to read Excel file"}
          /\ raised' = "none"
          /\ pc' = "check"]_vars

C4_Witness ==
    /\ pc = "check"
    /\ file.state = "missing"
    /\ errors = {"Excel file not found"}
    /\ loadCount = 1
    /\ df = EmptyFrame

\* C5: a run whose loaded Dataset is empty stops right after the load: no
\* filter, KPI or chart step runs, and nothing is raised.
C5_EmptyHalts ==
    (pc \notin {"load", "check"} /\ Len(df.rows) = 0) =>
        /\ pc = "stopped"
        /\ raised = "none"
        /\ filtered_df = Unset
        /\ selected_status = NoSelection
        /\ date_range = NoDateRange
        /\ selected_region = NoSelection
        /\ kpi = NoKPIs
        /\ trend_df = NoTrend

C5_Witness == pc = "stopped" /\ file.state = "ok" /\ df.cols # {} /\ loadCount = 1

\* filter(d, s) for the selection s of the current run.
Filter(d) ==
    LET a == IF "Status" \in d.cols
             THEN DateFilter(DateFilter(DateFilter(
                      IsIn(d, "Status", selected_status),
                      date_range), date_range), date_range)
             ELSE d
    IN IF "Region" \in d.cols THEN IsIn(a, "Region", selected_region) ELSE a

\* C6: filter is idempotent, filter(filter(d, s), s) = filter(d, s), and the
\* second and third application of the date predicate change nothing.
C6_FilterIdempotent ==
    /\ pc \in {"date2", "date3", "region"} =>
          DateFilter(filtered_df, date_range) = filtered_df
    /\ PostFilter =>
          /\ filtered_df = Filter(df)
          /\ Filter(filtered_df) = filtered_df

C6_Witness ==
    /\ pc = "done"
    /\ IsPair(date_range)
    /\ Len(filtered_df.rows) >= 1
    /\ Len(filtered_df.rows) < Len(IsIn(df, "Status", selected_status).rows)

\* C7: fulfillment_rate is within [0, 100], is fulfilled / total_orders * 100
\* when total_orders > 0 and is 0 when total_orders = 0, without a division
\* by zero.
C7_RateInRange ==
    pc \in {"charts", "done"} =>
        LET r == kpi.fulfillment_rate
            t == kpi.total_orders
            f == kpi.fulfilled_orders
        IN /\ t = Len(filtered_df.rows)
           /\ r.den > 0
           /\ 0 <= r.num
           /\ r.num <= 100 * r.den
           /\ t > 0 => r.num * t = f * 100 * r.den
           /\ t = 0 => r.num = 0

C7_Witness ==
    /\ pc = "done"
    /\ kpi.total_orders = 0
    /\ "Status" \in df.cols
    /\ selected_status # {}

\* The header cell of the sheet that is column c after stripping.
HeaderOf(f, c) == CHOOSE h \in f.header : Strip(h) = c

\* C8: after a successful load no Status, Region or Customer_Segment cell is
\* missing: a missing cell has become "Unknown", any other cell is unchanged.
C8_CategoricalsFilled ==
    [][(pc = "load" /\ ~cache.set /\ file.state = "ok") =>
          /\ Len(df'.rows) = Len(file.rows)
          /\ \A c \in {"Status", "Region", "Customer_Segment"} :
                (\E h \in file.header : Strip(h) = c) =>
                    \A i \in 1..Len(file.rows) :
                        LET raw == file.rows[i][HeaderOf(file, c)]
                            new == df'.rows[i].v[c]
                        IN /\ new # NaN
                           /\ raw = NaN => new = "Unknown"
                           /\ raw # NaN => new = raw]_vars

C8_Witness ==
    /\ pc = "check"
    /\ loadCount = 1
    /\ file.state = "ok"
    /\ df = LoadBody(file).value
    /\ \E i \in 1..Len(df.rows) :
          /\ df.cols = KnownCols
          /\ df.rows[i].v["Customer_Segment"] = "Unknown"
          /\ df.rows[i].v["Status"] = "Pending"

RECURSIVE SumOrders(_)
SumOrders(t) == IF t = <<>> THEN 0 ELSE Head(t).Orders + SumOrders(Tail(t))

\* C9: monthly_trend is in strictly ascending month order, has one entry for
\* every month with a row whose Date is present, every count is at least 1,
\* and the counts add up to the number of rows with a present Date.
C9_MonthlyTrend ==
    (pc = "done" /\ "Date" \in filtered_df.cols) =>
        LET present == SelectSeq(filtered_df.rows, LAMBDA r : r.v["Date"] # NaT)
            months == {<<present[i].v["Date"][1], present[i].v["Date"][2]>> :
                          i \in 1..Len(present)}
        IN /\ Len(trend_df) = Cardinality(months)
           /\ \A i \in 1..Len(trend_df) :
                 /\ trend_df[i].Date \in months
                 /\ trend_df[i].Orders >= 1
                 /\ trend_df[i].Orders =
                       Cardinality({j \in 1..Len(present) :
                           <<present[j].v["Date"][1], present[j].v["Date"][2]>>
                               = trend_df[i].Date})
           /\ \A i \in 1..Len(trend_df) : \A j \in 1..Len(trend_df) :
                 i < j => PeriodLess(trend_df[i].Date, trend_df[j].Date)
           /\ SumOrders(trend_df) = Len(present)

C9_Witness ==
    /\ pc = "done"
    /\ Len(trend_df) = 2
    /\ trend_df[1].Orders = 2
    /\ Len(filtered_df.rows) = 3

\* C10: load runs at most once; at every later run the Dataset is the one of
\* the first load, and no filter or aggregate step changes it.
C10_LoadedOnce ==
    [][/\ loadCount' <= 1
       /\ cache.set => cache' = cache
       /\ (pc # "load" /\ pc' # "load") => df' = df
       /\ pc' # "load" => df' = cache'.value]_vars

C10_Witness ==
    /\ pc = "check"
    /\ file.state = "missing"
    /\ Len(df.rows) = 2
    /\ loadCount = 1

====
